---- MODULE Spec2Model ----
(***************************************************************************)
(* Model of doc/src/scripts/Vector3.cpp: main connects to the remote       *)
(* service, fetches the active vessel's prograde vector through the chain  *)
(* sc.active_vessel().flight().prograde() and writes its three components  *)
(* to standard output.                                                     *)
(*                                                                         *)
(* Doubles are modelled as integers counted in units of 10^-7 (rounding to *)
(* significant digits does not depend on the unit).  The text operator<<   *)
(* writes for a double is represented by the number that text denotes.     *)
(***************************************************************************)
EXTENDS Integers, Sequences, FiniteSets, TLC

VARIABLES
  pc,        \* index in Program of the statement main is at
  conn,      \* main's conn (line 8): "none", "open" or "closed"
  connects,  \* calls of krpc::connect() made so far
  sc,        \* whether main's sc (line 9) is constructed
  vessel,    \* the temporary sc.active_vessel() returned (line 10)
  fl,        \* the temporary .flight() returned (line 10)
  v,         \* main's v (line 10)
  sent,      \* requests written to the connection, oldest first
  replies,   \* answers of the service, the k-th to the k-th request
  taken,     \* calls of the chain that have returned to main
  out,       \* what has been inserted into std::cout (lines 11-13)
  exit,      \* "running", "0" (main returned) or "abort" (std::terminate)
  events     \* history: the externally visible events of the run, in order

vars == <<pc, conn, connects, sc, vessel, fl, v, sent, replies, taken, out,
          exit, events>>

(* ------------------------------ bounds -------------------------------- *)

\* Remote object handles the service may hand out for vessels and flights.
NumVessels == 2
NumFlights == 2

\* Component values the service may report (units of 10^-7).
Components == {-7071068, 0, 1234565, 10000000}

Vessels == 1..NumVessels
Flights == 1..NumFlights
Vectors == Components \X Components \X Components

(* ------------------------- output formatting -------------------------- *)

\* Default precision of a std::ostream: operator<<(double) writes at most
\* this many significant digits.
PRECISION == 6

Abs(x) == IF x < 0 THEN -x ELSE x

RECURSIVE Digits(_)
Digits(n) == IF n < 10 THEN 1 ELSE 1 + Digits(n \div 10)

RECURSIVE Pow10(_)
Pow10(k) == IF k = 0 THEN 1 ELSE 10 * Pow10(k - 1)

\* The number denoted by the text operator<< writes for the double x:
\* x rounded to PRECISION significant digits, ties to even.
RoundSig(x) ==
  LET a == Abs(x)
      d == Digits(a)
  IN IF d <= PRECISION THEN x
     ELSE LET u  == Pow10(d - PRECISION)
              q  == a \div u
              r  == a % u
              up == (2 * r > u) \/ (2 * r = u /\ q % 2 = 1)
              m  == IF up THEN q + 1 ELSE q
          IN (IF x < 0 THEN -1 ELSE 1) * m * u

Num(x) == <<"num", RoundSig(x)>>
Sp == <<"sp", 0>>
Nl == <<"nl", 0>>

\* Mutant of Output: second and third component swapped.
OutputSwapped(w) == <<Num(w[1]), Sp, Num(w[3]), Sp, Num(w[2]), Nl>>

\* What lines 11-13 insert into std::cout, one element per operator<<.
Output(w) == <<Num(w[1]), Sp, Num(w[2]), Sp, Num(w[3]), Nl>>

(* ------------------------------- main --------------------------------- *)

\* Mutant of Program: the print statement moved before the remote call.
ProgramPrintFirst ==
  <<"connect", "SpaceCenter", "cout", "cout", "cout", "cout", "cout", "cout",
    "active_vessel", "flight", "prograde", "main_return">>

\* Mutant of Program: the vector is fetched a second time before printing.
ProgramFetchTwice ==
  <<"connect", "SpaceCenter", "active_vessel", "flight", "prograde", "prograde",
    "cout", "cout", "cout", "cout", "cout", "cout", "main_return">>

\* The statements of main in program order; each "cout" is one operator<<.
Program ==
  <<"connect", "SpaceCenter", "active_vessel", "flight", "prograde",
    "cout", "cout", "cout", "cout", "cout", "cout", "main_return">>

Stmt == IF pc \in DOMAIN Program THEN Program[pc] ELSE "end"

Running == exit = "running"

\* A default-constructed tuple<double,double,double> and the null handle.
NoVector == <<0, 0, 0>>
NoHandle == 0

Init ==
  /\ pc = 1
  /\ conn = "none"
  /\ connects = 0
  /\ sc = FALSE
  /\ vessel = NoHandle
  /\ fl = NoHandle
  /\ v = NoVector
  /\ sent = <<>>
  /\ replies = <<>>
  /\ taken = 0
  /\ out = <<>>
  /\ exit = "running"
  /\ events = <<>>

(* --------------------- the client library and service ------------------ *)

\* krpc::connect() either returns an open Client or throws.
ConnectResults == {"ok", "throw"}

\* The library marshals one local call into one request on the connection.
invoke(proc, target) == [proc |-> proc, target |-> target]

\* What the service may answer to a request: an error, or a value of the
\* procedure's return type.
Answers(proc) ==
  CASE proc = "active_vessel" ->
         {[ok |-> FALSE, val |-> NoHandle]} \cup {[ok |-> TRUE, val |-> h] : h \in Vessels}
    [] proc = "flight" ->
         {[ok |-> FALSE, val |-> NoHandle]} \cup {[ok |-> TRUE, val |-> h] : h \in Flights}
    [] OTHER ->
         {[ok |-> FALSE, val |-> NoVector]} \cup {[ok |-> TRUE, val |-> w] : w \in Vectors}

\* The service answers the oldest unanswered request (or never does: this
\* action carries no fairness).
Reply ==
  /\ Len(replies) < Len(sent)
  /\ \E r \in Answers(sent[Len(replies) + 1].proc) : replies' = Append(replies, r)
  /\ UNCHANGED <<pc, conn, connects, sc, vessel, fl, v, sent, taken, out, exit, events>>

(* --------------------------- main, continued --------------------------- *)

\* Mutant of Unhandled: the failure is caught and main starts over once.
UnhandledRetry ==
  IF connects <= 1 /\ Len(sent) <= 3
  THEN pc' = 1 /\ exit' = exit /\ conn' = "none" /\ out' = out
  ELSE pc' = pc /\ exit' = "abort" /\ conn' = conn /\ out' = out

\* Mutant of Unhandled: the failure is caught and reported on std::cout.
UnhandledReport ==
  /\ pc' = pc
  /\ exit' = "abort"
  /\ conn' = conn
  /\ out' = Append(out, <<"err", 0>>)

\* main has no try block: an exception thrown by a call leaves main at the
\* throwing statement and std::terminate aborts the process.  Whether the
\* stack is unwound (and conn destroyed) first is implementation-defined.
Unhandled ==
  /\ pc' = pc
  /\ exit' = "abort"
  /\ \E unwound \in BOOLEAN :
       conn' = IF unwound /\ conn = "open" THEN "closed" ELSE conn
  /\ out' = out

\* Line 8: krpc::Client conn = krpc::connect();
connect ==
  /\ Running /\ Stmt = "connect"
  /\ connects' = connects + 1
  /\ \E r \in ConnectResults :
       IF r = "ok"
       THEN /\ conn' = "open"
            /\ events' = Append(events, <<"open", "">>)
            /\ pc' = pc + 1
            /\ UNCHANGED <<exit, out>>
       ELSE Unhandled /\ UNCHANGED events
  /\ UNCHANGED <<sc, vessel, fl, v, sent, replies, taken>>

\* Line 9: SpaceCenter sc(&conn);
SpaceCenter ==
  /\ Running /\ Stmt = "SpaceCenter"
  /\ sc' = TRUE
  /\ pc' = pc + 1
  /\ UNCHANGED <<conn, connects, vessel, fl, v, sent, replies, taken, out, exit, events>>

\* Mutant of Target: flight() is called on the null handle, prograde() on
\* the vessel.
TargetStale(proc) ==
  CASE proc = "active_vessel" -> NoHandle
    [] proc = "flight" -> NoHandle
    [] OTHER -> vessel

\* The object each call of line 10 is made on: the service itself, the
\* vessel active_vessel() returned, the flight flight() returned.
Target(proc) ==
  CASE proc = "active_vessel" -> NoHandle
    [] proc = "flight" -> vessel
    [] OTHER -> fl

\* Mutant of Result: the tuple is stored back to front.
ResultReversed(w) == <<w[3], w[2], w[1]>>

\* Line 10: v is initialised with the value prograde() returns.
Result(w) == w

\* Mutant of Returned: the call gives up without an answer.
ReturnedOrTimedOut == TRUE

\* The blocking call returns only once its answer has arrived.
Returned == Len(replies) > taken

\* Mutant of Idle: a call is issued while another is still outstanding.
IdleAlways == TRUE

\* A call is entered only when no earlier call of main is in progress.
Idle == taken = Len(sent)

\* Line 10, entering one call of the chain: the request goes out.
Call(proc) ==
  /\ Running /\ Stmt = proc /\ Idle
  /\ sent' = Append(sent, invoke(proc, Target(proc)))
  /\ events' = Append(events, <<"request", proc>>)
  /\ UNCHANGED <<pc, conn, connects, sc, vessel, fl, v, replies, taken, out, exit>>

\* Line 10, leaving one call of the chain: the answer is returned to main,
\* or an exception is thrown (the service answered with an error, or the
\* call came back with no answer at all).
Return(proc) ==
  /\ Running /\ Stmt = proc /\ taken < Len(sent) /\ Returned
  /\ taken' = taken + 1
  /\ IF Len(replies) > taken /\ replies[taken + 1].ok
     THEN /\ vessel' = IF proc = "active_vessel" THEN replies[taken + 1].val ELSE vessel
          /\ fl' = IF proc = "flight" THEN replies[taken + 1].val ELSE fl
          /\ v' = IF proc = "prograde" THEN Result(replies[taken + 1].val) ELSE v
          /\ events' = Append(events, <<"response", proc>>)
          /\ pc' = pc + 1
          /\ UNCHANGED <<conn, out, exit>>
     ELSE Unhandled /\ UNCHANGED <<vessel, fl, v, events>>
  /\ UNCHANGED <<connects, sc, sent, replies>>

active_vessel == Call("active_vessel") \/ Return("active_vessel")

flight == Call("flight") \/ Return("flight")

prograde == Call("prograde") \/ Return("prograde")

\* Lines 11-13: one operator<< of the chain; std::endl is the last.
cout ==
  /\ Running /\ Stmt = "cout" /\ Len(out) < Len(Output(v))
  /\ out' = Append(out, Output(v)[Len(out) + 1])
  /\ events' = Append(events, <<"write", "">>)
  /\ pc' = pc + 1
  /\ UNCHANGED <<conn, connects, sc, vessel, fl, v, sent, replies, taken, exit>>

\* Mutant of main_return: main returns a failure code.
main_return_one ==
  /\ Running /\ Stmt = "main_return"
  /\ exit' = "1"
  /\ conn' = IF conn = "open" THEN "closed" ELSE conn
  /\ pc' = pc + 1
  /\ UNCHANGED <<connects, sc, vessel, fl, v, sent, replies, taken, out, events>>

\* Line 14: main falls off its end: conn is destroyed, the exit code is 0.
main_return ==
  /\ Running /\ Stmt = "main_return"
  /\ exit' = "0"
  /\ conn' = IF conn = "open" THEN "closed" ELSE conn
  /\ pc' = pc + 1
  /\ UNCHANGED <<connects, sc, vessel, fl, v, sent, replies, taken, out, events>>

\* The steps main itself takes.
main == connect \/ SpaceCenter \/ active_vessel \/ flight \/ prograde \/ cout \/ main_return

Next == main \/ Reply

Spec == Init /\ [][Next]_vars

\* main is the only thread of a running process: it keeps taking its steps.
\* Nothing obliges the service to answer.
FairSpec == Spec /\ WF_vars(main)

(* ------------------------------ properties ----------------------------- *)

ChainOrder == <<"active_vessel", "flight", "prograde">>

\* main has received the answer to prograde().
Received == taken = 3 /\ Len(replies) >= 3 /\ replies[3].ok

\* The connection attempt failed / a call of the chain failed.
ConnectFailed == connects > 0 /\ conn = "none"
CallFailed == \E i \in 1..taken : i > Len(replies) \/ ~replies[i].ok
Failed == ConnectFailed \/ CallFailed

\* main waits for an answer the service has not given.
Unanswered == taken < Len(sent) /\ Len(replies) <= taken

C2_FailStop ==
  /\ connects <= 1
  /\ \A i, j \in 1..Len(sent) : i # j => sent[i].proc # sent[j].proc
  /\ Failed =>
       /\ exit = "abort"
       /\ ~ENABLED main
       /\ Len(sent) = taken
       /\ \A i \in 1..Len(replies) : ~replies[i].ok => i = Len(sent)

C2_Witness == exit = "abort" /\ CallFailed /\ taken = 3 /\ connects = 1

\* C3: the events of a run are ordered by step: the connection is opened,
\* then requests and responses, then writes; a request is only sent on an
\* open connection, a response follows its request, and a write follows the
\* response to prograde().
EventStep(e) ==
  CASE e[1] = "open" -> 1
    [] e[1] = "request" -> 2
    [] e[1] = "response" -> 2
    [] OTHER -> 3

C3_LinearOrder ==
  /\ \A i, j \in 1..Len(events) : i < j => EventStep(events[i]) <= EventStep(events[j])
  /\ \A j \in 1..Len(events) :
       /\ events[j][1] = "request" => events[1] = <<"open", "">>
       /\ events[j][1] = "response" =>
            j > 1 /\ events[j - 1] = <<"request", events[j][2]>>
       /\ events[j][1] = "write" =>
            \E i \in 1..(j - 1) : events[i] = <<"response", "prograde">>
  /\ \A i, j \in 1..Len(events) : (i # j /\ events[i][1] # "write") => events[i] # events[j]

C3_Witness == exit = "0" /\ Len(events) = 13 /\ events[13] = <<"write", "">>

\* C4 as stated: a run that ends normally opened the connection once and
\* sent one request.
C4_OneRequest == exit = "0" => (connects = 1 /\ Len(sent) = 1)

\* C4, amended: the connection is opened once and three requests are sent
\* over it, for active_vessel, flight and prograde, before anything is
\* printed; a successful run sends three requests in total.
C4_ThreeRequests ==
  /\ connects <= 1
  /\ Len(sent) <= 3
  /\ (out # <<>> \/ exit = "0") =>
       /\ connects = 1
       /\ conn # "none"
       /\ Len(sent) = 3
       /\ \A i \in 1..3 : sent[i].proc = ChainOrder[i]

C4_Witness == exit = "0" /\ Len(sent) = 3 /\ connects = 1 /\ Len(out) = 6

Answered == conn = "open" /\ Len(replies) = 3 /\ replies[3].ok
Finished == exit = "0" /\ Len(out) = 6 /\ out[6] = Nl /\ pc = Len(Program) + 1

\* C5: once the connection is open and the service has answered
\* prograde(), main terminates with exit code 0 having written its line;
\* and no run ends with exit code 0 without the full line.

C5_Terminates ==
  /\ Answered ~> Finished
  /\ [](exit = "0" => (Len(out) = 6 /\ out[6] = Nl))

C5_Witness == Finished /\ Len(replies) = 3 /\ replies[3].ok

\* C6 as stated: the numbers written are the numbers received.
C6_WrittenAreReceived ==
  (exit = "0" /\ Len(replies) >= 3 /\ Len(out) = 6) =>
     /\ out[1][2] = replies[3].val[1]
     /\ out[3][2] = replies[3].val[2]
     /\ out[5][2] = replies[3].val[3]

\* From its receipt on v is the value prograde() returned and every number
\* written is the rendering of the corresponding received component.
C6_Verbatim ==
  Received =>
     /\ v = replies[3].val
     /\ \A k \in 1..3 :
          Len(out) >= 2 * k - 1 =>
             /\ out[2 * k - 1] = <<"num", RoundSig(replies[3].val[k])>>
             /\ Digits(Abs(replies[3].val[k])) <= PRECISION =>
                  out[2 * k - 1][2] = replies[3].val[k]

\* Once received, v is not changed by any step.
C6_Unchanged == [][Received => v' = v]_vars

\* C6, amended: from its receipt on v is the value prograde() returned,
\* component for component, and no step changes it afterwards; every number
\* written is the corresponding received component as operator<< renders
\* it: rounded to 6 significant digits, hence equal to it when it has no
\* more digits than that.
C6_VerbatimAndUnchanged == []C6_Verbatim /\ C6_Unchanged

C6_Witness ==
  /\ Received
  /\ Len(out) = 6
  /\ replies[3].val = <<1234565, 0, -7071068>>
  /\ v = <<1234565, 0, -7071068>>
  /\ out[1] = <<"num", 1234560>>
  /\ out[5] = <<"num", -7071070>>

\* At most one request is outstanding, and main can take no step while it
\* is unanswered.
C7_AtMostOne ==
  /\ Len(sent) - taken <= 1
  /\ Len(sent) - Len(replies) <= 1
  /\ Unanswered => (exit = "running" /\ out = <<>> /\ ~ENABLED main)

\* A step taken while the request is unanswered leaves main where it is.
C7_StaysBlocked ==
  [][Unanswered => (pc' = pc /\ out' = out /\ exit' = exit /\ sent' = sent /\ taken' = taken)]_vars

\* C7: main never has more than one request outstanding; while the service
\* has not answered the outstanding request main is running, can take no
\* step and has written nothing; and any step taken meanwhile leaves main
\* where it is, so a request never answered blocks main for ever.
C7_Blocking == []C7_AtMostOne /\ C7_StaysBlocked

C7_Witness == Unanswered /\ Len(sent) = 3 /\ sent[3].proc = "prograde"

\* C8: a run that failed at the connection or at a call has written nothing
\* when it terminates, and no terminated run leaves a partial line.
C8_AllOrNothing ==
  /\ (exit = "abort" \/ Failed) => out = <<>>
  /\ exit # "running" => Len(out) \in {0, 6}

C8_Witness == exit = "abort" /\ CallFailed /\ taken = 2 /\ out = <<>>

\* C9: the requests are active_vessel, flight, prograde in that order; each
\* is sent only after the one before it returned successfully, flight on
\* the handle active_vessel returned and prograde on the handle flight
\* returned; after a failed stage nothing more is sent.
C9_Chain ==
  /\ Len(sent) <= 3
  /\ \A i \in 1..Len(sent) :
       /\ sent[i].proc = ChainOrder[i]
       /\ i > 1 =>
            /\ taken >= i - 1
            /\ Len(replies) >= i - 1
            /\ replies[i - 1].ok
            /\ sent[i].target = replies[i - 1].val
  /\ \A i \in 1..Len(replies) : ~replies[i].ok => Len(sent) = i

C9_Witness ==
  /\ Len(sent) = 3
  /\ replies[1].val = 2 /\ sent[2].target = 2
  /\ replies[2].val = 1 /\ sent[3].target = 1

====
